---- MODULE Spec2Model ----
(***************************************************************************)
(* Verification model of the RFID access controller firmware.              *)
(*                                                                         *)
(* Three firmware images of the repository are modelled; the variable fw   *)
(* says which one is running:                                              *)
(*   "cloud"  src/RFID_Controller_Version_cloud.ino  (NVS key-value store, *)
(*            per-card permission mask, 8 timed relays)                    *)
(*   "v102"   src/RFID_V1.0.2.ino  (EEPROM fixed slots, integer Mode       *)
(*            parameter, one access relay, circular log)                   *)
(*   "sw"     src/unnamed/part_000 lines 467-830 (EEPROM fixed slots, mode *)
(*            entered through virtual switches)                            *)
(*   "single" src/unnamed/part_000 lines 1-465 (as "cloud", one device,    *)
(*            marks kept on leaving a mode)                                *)
(*                                                                         *)
(* Strings are sequences of character codes.  millis() is the variable     *)
(* now, a 32-bit counter; time passes in the action Tick, between          *)
(* handlers (a delay() at the tail of a handler is part of the next Tick). *)
(***************************************************************************)
EXTENDS Integers, Sequences, FiniteSets, TLC

VARIABLES
  fw,               \* which firmware image runs
  now,              \* millis()
  scans,            \* number of scans processed  (bounded by MaxScans)
  buzz,             \* the buzzer pattern the last handler played ("none": silent)
  \* ---- cloud image (RAM, then NVS)
  cards, addMode, removeMode, modeStartMs, mark, relayState, relayOffAt,
  statusStr, lastAccess,
  nvs,
  \* ---- EEPROM images (RAM, then EEPROM)
  rfidAddMode, rfidRemoveMode, rfidModeExpireAt, relay9_state, relay9_on_at,
  toggleState, logs, logCount, logPos, modeParam, beep,
  eeprom,
  history           \* the entries pushLog was called with since setup(), oldest first

cloudVars == <<cards, addMode, removeMode, modeStartMs, mark, relayState,
               relayOffAt, statusStr, lastAccess, nvs>>
eepromVars == <<rfidAddMode, rfidRemoveMode, rfidModeExpireAt, relay9_state,
                relay9_on_at, toggleState, logs, logCount, logPos, modeParam,
                beep, eeprom, history>>
vars == <<fw, now, scans, buzz, cloudVars, eepromVars>>

-----------------------------------------------------------------------------
(* Bounds of the model *)

\* Seconds of clock time a behaviour spans, from the earliest start time.
MaxElapsedCloudSec == 20
MaxElapsedEeSec == 61
\* Cards presented to the reader per behaviour.
MaxScans == 2
\* Mark1..MarkN and Relay1..RelayN are the parameters the app writes.
NumMarkInputs == 1
NumRelayInputs == 1
\* Cards enrolled on the device whose power fails during a save.
NumCrashCards == 5
\* Cards presented per behaviour when the log is filled beyond its capacity,
\* and how many of them may be granted.
MaxLogScans == 42
MaxLogGrants == 2
\* Pulses that follow one another within the pulse length: the step of time
\* between handlers, how many steps a behaviour spans, and the cards enrolled.
PulseStepMs == 2500
MaxPulseTicks == 6
NumPulseCards == 4

-----------------------------------------------------------------------------
(* 32-bit arithmetic *)

\* An unsigned 32-bit value is the pair <<high half, low half>> of its 16-bit
\* halves, so that no intermediate value of the arithmetic exceeds 31 bits.
HALF == 2^16
Z32 == <<0, 0>>
\* The 32-bit value of a number below 2^31.
U32(n) == <<n \div HALF, n % HALF>>
\* a + n for a number n below 2^31, modulo 2^32.
Add32(a, n) ==
  <<(a[1] + (n \div HALF) + ((a[2] + (n % HALF)) \div HALF)) % HALF, (a[2] + (n % HALF)) % HALF>>
\* a - b modulo 2^32.
Sub32(a, b) ==
  <<(a[1] - b[1] - (IF a[2] < b[2] THEN 1 ELSE 0) + 2 * HALF) % HALF, (a[2] - b[2] + HALF) % HALF>>
\* Unsigned comparisons, with another 32-bit value and with a number below 2^16.
Gt32(a, b) == a[1] > b[1] \/ (a[1] = b[1] /\ a[2] > b[2])
GeNum(a, n) == a[1] > 0 \/ a[2] >= n
GtNum(a, n) == a[1] > 0 \/ a[2] > n
\* (int32_t)x >= 0
NonNegInt32(x) == x[1] < HALF \div 2
\* x / 1000
Div1000(x) == x[1] * 65 + ((x[1] * 536 + x[2]) \div 1000)

Min(a, b) == IF a < b THEN a ELSE b

Chan == 0..7
Bit(m, i) == (m \div (2^i)) % 2 = 1

-----------------------------------------------------------------------------
(* The scan source: MFRC522 UIDs and their text form *)

\* String(b, HEX): lower-case digits, no padding.
HexLower(d) == IF d < 10 THEN 48 + d ELSE 87 + d
HexOfByte(b) == IF b < 16 THEN <<HexLower(b)>> ELSE <<HexLower(b \div 16), HexLower(b % 16)>>
toUpperCase(s) == [i \in 1..Len(s) |-> IF s[i] >= 97 /\ s[i] <= 122 THEN s[i] - 32 ELSE s[i]]

RECURSIVE uidHex(_)
uidHex(bytes) ==
  IF bytes = <<>> THEN <<>>
  ELSE (IF Head(bytes) < 16 THEN <<48>> ELSE <<>>) \o HexOfByte(Head(bytes)) \o uidHex(Tail(bytes))

uidToString(bytes) == toUpperCase(uidHex(bytes))

\* UIDs the reader delivers: 4, 7 and 10 bytes (8, 14 and 20 characters).
UID4 == <<4, 161, 178, 195>>
UID7 == <<4, 17, 34, 51, 68, 85, 102>>
UID10a == <<1, 2, 3, 4, 5, 6, 7, 8, 9, 10>>
\* The cards enrolled before the behaviour starts.
FillerUid(i) == <<240, 0, i \div 256, i % 256>>

\* The reader has no new card.
NoCard == <<-1>>

-----------------------------------------------------------------------------
(* Cloud image: registry in RAM (cards) written through to NVS *)

MAX_CARDS == 64
MODE_TIMEOUT_MS == 15000
\* pulseRelayAutoOff's default duration, and the one every caller passes.
PULSE_MS == 5000
\* buzzer_timeout3 blocks for 60+80+60+80+60 ms before the reader is polled.
TIMEOUT3_MS == 340

\* Index (from 0) of the first entry holding uid, or -1.
findCardIndex(cs, uid) ==
  IF \E i \in 1..Len(cs) : cs[i].uid = uid
  THEN (CHOOSE i \in 1..Len(cs) : cs[i].uid = uid /\ \A j \in 1..(i - 1) : cs[j].uid # uid) - 1
  ELSE -1

RECURSIVE markBits(_, _)
markBits(mk, i) == IF i > 7 THEN 0 ELSE (IF mk[i] THEN 2^i ELSE 0) + markBits(mk, i + 1)

\* Variant: the staged marks are ignored.
noMarkMask(mk) == 0

currentMarkMask(mk) == markBits(mk, 0)

\* "R1,R3" as the sequence <<1, 3>>; "-" when no bit is set.
RECURSIVE maskRelays(_, _)
maskRelays(m, i) == IF i > 7 THEN <<>> ELSE (IF Bit(m, i) THEN <<i + 1>> ELSE <<>>) \o maskRelays(m, i + 1)

maskToList(m) == IF maskRelays(m, 0) = <<>> THEN <<"-">> ELSE maskRelays(m, 0)

\* The LastAccess parameter: identifier, outcome and, when granted, the mask list.
updateLastAccessParam(uid, granted, m) ==
  [uid |-> uid, outcome |-> IF granted THEN "GRANTED" ELSE "DENIED",
   list |-> IF granted THEN maskToList(m) ELSE <<>>]

\* snprintf(k, 8, "u%02u", i): the prefix and at least two decimal digits.
RECURSIVE decimal(_)
decimal(n) == IF n < 10 THEN <<n>> ELSE decimal(n \div 10) \o <<n % 10>>

nvsKey(prefix, i) == <<prefix>> \o (IF i < 10 THEN <<0>> ELSE <<>>) \o decimal(i)

NVS_KEY_COUNT == <<"count">>
nvsGet(store, k, default) == IF k \in DOMAIN store THEN store[k] ELSE default
nvsPut(store, k, v) == [x \in DOMAIN store \cup {k} |-> IF x = k THEN v ELSE store[x]]

\* The number a key of the form prefix, digits ends in.
RECURSIVE digitsValue(_, _)
digitsValue(k, n) == IF n < 2 THEN 0 ELSE digitsValue(k, n - 1) * 10 + k[n]
keyIndex(k) == digitsValue(k, Len(k))

\* The two loops of saveCardsToNVS, each as the store they leave: the first
\* puts the keys of entries 0..cnt-1, the second removes those of cnt..prev-1.
putEntries(store, cs, cnt) ==
  LET keys == {nvsKey("u", i) : i \in 0..(cnt - 1)} \cup {nvsKey("m", i) : i \in 0..(cnt - 1)}
      put(k) == k[1] \in {"u", "m"} /\ keyIndex(k) < cnt
  IN [k \in DOMAIN store \cup keys |->
        IF put(k) THEN (IF k[1] = "u" THEN cs[keyIndex(k) + 1].uid ELSE cs[keyIndex(k) + 1].mask)
        ELSE store[k]]

removeEntries(store, cnt, prev) ==
  LET gone(k) == k[1] \in {"u", "m"} /\ keyIndex(k) >= cnt /\ keyIndex(k) < prev
  IN [k \in {x \in DOMAIN store : ~gone(x)} |-> store[k]]

saveCardsToNVS(store, cs) ==
  LET prev == nvsGet(store, NVS_KEY_COUNT, 0)
      cnt == IF Len(cs) > MAX_CARDS THEN MAX_CARDS ELSE Len(cs)
  IN removeEntries(putEntries(nvsPut(store, NVS_KEY_COUNT, cnt), cs, cnt), cnt, prev)

\* The primitive writes of saveCardsToNVS, in order: the count, then u and m of
\* every entry, then the removal of u and m of every entry that is left over.
numSaveWrites(store, cs) ==
  LET prev == nvsGet(store, NVS_KEY_COUNT, 0)
      cnt == IF Len(cs) > MAX_CARDS THEN MAX_CARDS ELSE Len(cs)
  IN 1 + 2 * cnt + (IF prev > cnt THEN 2 * (prev - cnt) ELSE 0)

\* The store when power is lost after the first j primitive writes of
\* saveCardsToNVS.
savePartial(store, cs, j) ==
  LET prev == nvsGet(store, NVS_KEY_COUNT, 0)
      cnt == IF Len(cs) > MAX_CARDS THEN MAX_CARDS ELSE Len(cs)
      isPut(k) == /\ k[1] \in {"u", "m"}
                  /\ keyIndex(k) < cnt
                  /\ j >= 2 + 2 * keyIndex(k) + (IF k[1] = "u" THEN 0 ELSE 1)
      isGone(k) == /\ k[1] \in {"u", "m"}
                   /\ keyIndex(k) >= cnt /\ keyIndex(k) < prev
                   /\ j >= 2 + 2 * keyIndex(k) + (IF k[1] = "u" THEN 0 ELSE 1)
      all == {NVS_KEY_COUNT} \cup {nvsKey("u", i) : i \in 0..(cnt - 1)}
                             \cup {nvsKey("m", i) : i \in 0..(cnt - 1)}
      keys == {k \in DOMAIN store \cup all :
                 IF k = NVS_KEY_COUNT THEN j >= 1 \/ k \in DOMAIN store
                 ELSE IF k \in DOMAIN store THEN ~isGone(k)
                 ELSE isPut(k)}
  IN [k \in keys |->
        IF k = NVS_KEY_COUNT THEN (IF j >= 1 THEN cnt ELSE store[k])
        ELSE IF isPut(k)
          THEN (IF k[1] = "u" THEN cs[keyIndex(k) + 1].uid ELSE cs[keyIndex(k) + 1].mask)
        ELSE store[k]]

loadCardsFromNVS(store) ==
  LET cnt == Min(nvsGet(store, NVS_KEY_COUNT, 0), MAX_CARDS)
      read == [i \in 1..cnt |-> [uid |-> nvsGet(store, nvsKey("u", i - 1), <<>>),
                                 mask |-> nvsGet(store, nvsKey("m", i - 1), 0)]]
      kept(entry) == Len(entry.uid) > 0
  IN SelectSeq(read, kept)

\* Variant without the capacity test: a new card is always appended.
enrollCardsUnbounded(cs, uid, m) ==
  LET idx == findCardIndex(cs, uid)
  IN IF idx >= 0 THEN [cs EXCEPT ![idx + 1].mask = m]
     ELSE Append(cs, [uid |-> uid, mask |-> m])

\* Variant: a card that is found keeps the mask it has.
enrollCardsKeepMask(cs, uid, m) ==
  LET idx == findCardIndex(cs, uid)
  IN IF idx >= 0 THEN cs
     ELSE IF Len(cs) < MAX_CARDS THEN Append(cs, [uid |-> uid, mask |-> m])
     ELSE cs

\* The registry part of the AddMode branch of loop().
enrollCards(cs, uid, m) ==
  LET idx == findCardIndex(cs, uid)
  IN IF idx >= 0 THEN [cs EXCEPT ![idx + 1].mask = m]
     ELSE IF Len(cs) < MAX_CARDS THEN Append(cs, [uid |-> uid, mask |-> m])
     ELSE cs

\* cards.erase(cards.begin() + idx)
eraseCard(cs, idx) == [i \in 1..(Len(cs) - 1) |-> IF i <= idx THEN cs[i] ELSE cs[i + 1]]

\* Variant: the start of the mode is left as it is.
enterAddModeKeepStart(md, t) ==
  [md EXCEPT !.addMode = TRUE, !.removeMode = FALSE, !.statusStr = "ADD_MODE"]

\* The mode part of the state: [addMode, removeMode, modeStartMs, statusStr, mark, buzz].
enterAddMode(md, t) ==
  [md EXCEPT !.addMode = TRUE, !.removeMode = FALSE, !.modeStartMs = t, !.statusStr = "ADD_MODE"]

\* Variant: the Unenroll flag is set and the Enroll flag is left as it is.
enterRemoveModeKeepAdd(md, t) ==
  [md EXCEPT !.removeMode = TRUE, !.modeStartMs = t, !.statusStr = "REMOVE_MODE"]

enterRemoveMode(md, t) ==
  [md EXCEPT !.removeMode = TRUE, !.addMode = FALSE, !.modeStartMs = t, !.statusStr = "REMOVE_MODE"]

\* Variant: the Unenroll flag is left as it is.
exitToNormalKeepRemove(img, md, fromTimeout) ==
  [md EXCEPT !.addMode = FALSE, !.statusStr = "NORMAL",
             !.mark = IF img = "cloud" THEN [i \in Chan |-> FALSE] ELSE @,
             !.buzz = IF fromTimeout THEN "timeout3" ELSE @]

\* The cloud image also resets Mark1..Mark8; the single-device image leaves them.
exitToNormal(img, md, fromTimeout) ==
  [md EXCEPT !.addMode = FALSE, !.removeMode = FALSE, !.statusStr = "NORMAL",
             !.mark = IF img = "cloud" THEN [i \in Chan |-> FALSE] ELSE @,
             !.buzz = IF fromTimeout THEN "timeout3" ELSE @]

\* The relay part of the state: [state, offAt].
setRelay(rl, idx, on) ==
  IF idx < 0 \/ idx >= 8 THEN rl ELSE [rl EXCEPT !.state[idx] = on]

\* Variant: a channel that is on keeps the deadline it has.
pulseRelayKeepDeadline(rl, idx, ms, t) ==
  IF rl.state[idx] THEN rl ELSE [setRelay(rl, idx, TRUE) EXCEPT !.offAt[idx] = Add32(t, ms)]

\* Variant: the channel is switched on with no deadline recorded.
pulseRelayNoDeadline(rl, idx, ms, t) == setRelay(rl, idx, TRUE)

pulseRelayAutoOff(rl, idx, ms, t) ==
  [setRelay(rl, idx, TRUE) EXCEPT !.offAt[idx] = Add32(t, ms)]

\* Variant: a channel is due only once its deadline has passed.
sweepDueStrict(offAt, t) == offAt # Z32 /\ offAt # t /\ NonNegInt32(Sub32(t, offAt))

\* loop(): if (relayOffAt[i] && (int32_t)(now - relayOffAt[i]) >= 0)
sweepDue(offAt, t) == offAt # Z32 /\ NonNegInt32(Sub32(t, offAt))

RECURSIVE sweepFrom(_, _, _)
sweepFrom(rl, t, i) ==
  IF i > 7 THEN rl
  ELSE sweepFrom(IF sweepDue(rl.offAt[i], t)
                 THEN [setRelay(rl, i, FALSE) EXCEPT !.offAt[i] = Z32]
                 ELSE rl, t, i + 1)

\* Variant: the channels that are due are switched off and keep their deadline.
sweepKeepDeadline(rl, t) ==
  [rl EXCEPT !.state = [i \in Chan |-> IF sweepDue(rl.offAt[i], t) THEN FALSE ELSE rl.state[i]]]

sweep(rl, t) == sweepFrom(rl, t, 0)

modeExpired(md, t) ==
  (md.addMode \/ md.removeMode) /\ GeNum(Sub32(t, md.modeStartMs), MODE_TIMEOUT_MS)

RECURSIVE pulseMask(_, _, _, _)
pulseMask(rl, m, t, i) ==
  IF i > 7 THEN rl
  ELSE pulseMask(IF Bit(m, i) THEN pulseRelayAutoOff(rl, i, PULSE_MS, t) ELSE rl, m, t, i + 1)

\* Variant: any found card is granted, whatever its mask.
grantedAnyMask(cs, idx) == idx >= 0

\* Normal-mode decision of loop(): grant only a found card with a non-zero mask.
granted(cs, idx) == idx >= 0 /\ cs[idx + 1].mask # 0

\* Parameter names.  In the cloud image the marks and the relays of the second
\* device carry the same names LT1..LT8.
P_ADD_MODE == <<"AddMode", 0>>
P_REMOVE_MODE == <<"RemoveMode", 0>>
P_MARK(img, i) == IF img = "cloud" THEN <<"LT", i + 1>> ELSE <<"Mark", i + 1>>
P_RELAY(img, i) == IF img = "cloud" THEN <<"LT", i + 1>> ELSE <<"Relay", i + 1>>

\* The first channel of a non-empty set of channels.
firstChan(S) == CHOOSE i \in S : \A j \in S : i <= j

\* The whole RAM and NVS of the image as one record c:
\*   [cards, nvs, md, rl, lastAccess]
write_callback(img, c, pname, v, t) ==
  LET isMark(i) == pname = P_MARK(img, i)
      isRelay(i) == pname = P_RELAY(img, i)
  IN IF pname = P_ADD_MODE
       THEN [c EXCEPT !.md = IF v THEN enterAddMode(@, t) ELSE exitToNormal(img, @, FALSE)]
     ELSE IF pname = P_REMOVE_MODE
       THEN [c EXCEPT !.md = IF v THEN enterRemoveMode(@, t) ELSE exitToNormal(img, @, FALSE)]
     ELSE IF \E i \in Chan : isMark(i)
       THEN [c EXCEPT !.md.mark[firstChan({i \in Chan : isMark(i)})] = v]
     ELSE IF \E i \in Chan : isRelay(i)
       THEN LET i == firstChan({k \in Chan : isRelay(k)})
            IN IF v THEN [c EXCEPT !.rl = pulseRelayAutoOff(@, i, PULSE_MS, t)]
               ELSE [c EXCEPT !.rl = [setRelay(@, i, FALSE) EXCEPT !.offAt[i] = Z32]]
     ELSE c

\* The mode a scan is processed in.
scanMode(md) == IF md.addMode THEN "add" ELSE IF md.removeMode THEN "remove" ELSE "normal"

\* Variant: the channels of a card that is found are pulsed before the mode
\* is looked at.
processCardGrantFirst(img, c, uid, t) ==
  LET idx == findCardIndex(c.cards, uid)
      c1 == IF granted(c.cards, idx)
            THEN [c EXCEPT !.rl = pulseMask(@, c.cards[idx + 1].mask, t, 0)] ELSE c
  IN IF c.md.addMode THEN
       LET m == currentMarkMask(c.md.mark)
           cs == enrollCards(c.cards, uid, m)
       IN [c1 EXCEPT !.cards = cs,
                     !.nvs = saveCardsToNVS(@, cs),
                     !.lastAccess = updateLastAccessParam(uid, TRUE, m),
                     !.md = exitToNormal(img, [@ EXCEPT !.buzz = "add"], FALSE)]
     ELSE IF c.md.removeMode THEN
       IF idx >= 0 THEN
         LET cs == eraseCard(c.cards, idx)
         IN [c1 EXCEPT !.cards = cs,
                       !.nvs = saveCardsToNVS(@, cs),
                       !.lastAccess = updateLastAccessParam(uid, TRUE, 0),
                       !.md = exitToNormal(img, [@ EXCEPT !.buzz = "remove"], FALSE)]
       ELSE [c EXCEPT !.lastAccess = updateLastAccessParam(uid, FALSE, 0),
                      !.md = exitToNormal(img, [@ EXCEPT !.buzz = "denied"], FALSE)]
     ELSE
       IF granted(c.cards, idx) THEN
         [c1 EXCEPT !.lastAccess = updateLastAccessParam(uid, TRUE, c.cards[idx + 1].mask),
                    !.md.buzz = "granted"]
       ELSE [c EXCEPT !.lastAccess = updateLastAccessParam(uid, FALSE, 0),
                      !.md.buzz = "denied"]

\* The card branch of loop(): uid was read at time t.
processCard(img, c, uid, t) ==
  LET idx == findCardIndex(c.cards, uid)
  IN IF c.md.addMode THEN
       LET m == currentMarkMask(c.md.mark)
           cs == enrollCards(c.cards, uid, m)
       IN [c EXCEPT !.cards = cs,
                    !.nvs = saveCardsToNVS(@, cs),
                    !.lastAccess = updateLastAccessParam(uid, TRUE, m),
                    !.md = exitToNormal(img, [@ EXCEPT !.buzz = "add"], FALSE)]
     ELSE IF c.md.removeMode THEN
       IF idx >= 0 THEN
         LET cs == eraseCard(c.cards, idx)
         IN [c EXCEPT !.cards = cs,
                      !.nvs = saveCardsToNVS(@, cs),
                      !.lastAccess = updateLastAccessParam(uid, TRUE, 0),
                      !.md = exitToNormal(img, [@ EXCEPT !.buzz = "remove"], FALSE)]
       ELSE [c EXCEPT !.lastAccess = updateLastAccessParam(uid, FALSE, 0),
                      !.md = exitToNormal(img, [@ EXCEPT !.buzz = "denied"], FALSE)]
     ELSE
       IF granted(c.cards, idx) THEN
         LET m == c.cards[idx + 1].mask
         IN [c EXCEPT !.rl = pulseMask(@, m, t, 0),
                      !.lastAccess = updateLastAccessParam(uid, TRUE, m),
                      !.md.buzz = "granted"]
       ELSE [c EXCEPT !.lastAccess = updateLastAccessParam(uid, FALSE, 0),
                      !.md.buzz = "denied"]

\* loop() up to the reader poll: the auto-off sweep, then the mode timeout.
loopHead(img, c, t) ==
  LET c1 == [c EXCEPT !.rl = sweep(@, t)]
  IN IF modeExpired(c1.md, t) THEN [c1 EXCEPT !.md = exitToNormal(img, @, TRUE)] ELSE c1

\* millis() when the reader is polled: buzzer_timeout3 has blocked before it.
pollTime(c, t) == IF modeExpired(c.md, t) THEN Add32(t, TIMEOUT3_MS) ELSE t

\* setup(): RAM starts from its initialisers, every relay is switched off and
\* the registry is loaded from NVS.
setup(store) ==
  [cards |-> loadCardsFromNVS(store),
   nvs |-> store,
   md |-> [addMode |-> FALSE, removeMode |-> FALSE, modeStartMs |-> Z32,
           statusStr |-> "NORMAL", mark |-> [i \in Chan |-> FALSE], buzz |-> "none"],
   rl |-> [state |-> [i \in Chan |-> FALSE], offAt |-> [i \in Chan |-> Z32]],
   lastAccess |-> [uid |-> <<>>, outcome |-> "-", list |-> <<>>]]

-----------------------------------------------------------------------------
(* EEPROM images: registry in fixed 16-byte slots, relay states and log *)

EEPROM_SIZE == 2048
CARD_START_ADDR == 1
CARD_SLOT_BYTES == 16
EE_MAX_CARDS == 80
LOG_START_ADDR == CARD_START_ADDR + (CARD_SLOT_BYTES * EE_MAX_CARDS)
LOG_ENTRY_BYTES == 12
MAX_LOGS == 40
RFID_MODE_TIMEOUT_MS == 30000
RELAY9_AUTO_OFF_MS == 5000
\* writeEEPROMRelayState / readEEPROMRelayState: eepromWriteByte(100 + addr, ..)
RELAY_STATE_ADDR == 100
\* loop(): delay(150) after processUID
SCAN_DELAY_MS == 150

\* The EEPROM buffer as the bytes written so far; a byte never written reads
\* 0xFF.
eepromReadByte(ee, addr) == IF addr \in DOMAIN ee THEN ee[addr] ELSE 255
\* EEPROM.write ignores an address outside the buffer.
eepromWriteByte(ee, addr, v) ==
  IF addr < 0 \/ addr >= EEPROM_SIZE THEN ee
  ELSE IF addr \in DOMAIN ee THEN [ee EXCEPT ![addr] = v % 256]
  ELSE [a \in DOMAIN ee \cup {addr} |-> IF a = addr THEN v % 256 ELSE ee[a]]

\* The 16 byte writes of storeCardSlot, as the buffer they leave.
storeCardSlot(ee, idx, uid) ==
  LET base == CARD_START_ADDR + idx * CARD_SLOT_BYTES
      byte(i) == IF i < Len(uid) THEN uid[i + 1] ELSE 0
  IN [a \in DOMAIN ee \cup (base..(base + CARD_SLOT_BYTES - 1)) |->
        IF a >= base /\ a < base + CARD_SLOT_BYTES THEN byte(a - base) % 256 ELSE ee[a]]

\* The characters of the slot up to its first zero byte, 16 at most.
readCardSlot(ee, idx) ==
  LET base == CARD_START_ADDR + idx * CARD_SLOT_BYTES
      zeros == {i \in 0..(CARD_SLOT_BYTES - 1) : eepromReadByte(ee, base + i) = 0}
      n == IF zeros = {} THEN CARD_SLOT_BYTES
           ELSE CHOOSE i \in zeros : \A j \in zeros : i <= j
  IN [i \in 1..n |-> eepromReadByte(ee, base + i - 1)]

getCardCount(ee) == eepromReadByte(ee, 0)
setCardCount(ee, c) == eepromWriteByte(ee, 0, c)

\* readCardSlot(i) == uid for each slot in turn; two strings whose first bytes
\* differ are unequal, which settles most slots at once.
eeFindCardIndex(ee, uid) ==
  LET cnt == getCardCount(ee)
      first == IF Len(uid) = 0 THEN 0 ELSE uid[1]
      hit == {i \in 0..(cnt - 1) :
                /\ eepromReadByte(ee, CARD_START_ADDR + i * CARD_SLOT_BYTES) = first
                /\ readCardSlot(ee, i) = uid}
  IN IF hit = {} THEN -1 ELSE CHOOSE i \in hit : \A j \in hit : i <= j

\* addCard: [ee, idx]
addCard(ee, uid) ==
  IF Len(uid) = 0 THEN [ee |-> ee, idx |-> -1]
  ELSE IF eeFindCardIndex(ee, uid) >= 0 THEN [ee |-> ee, idx |-> eeFindCardIndex(ee, uid)]
  ELSE LET cnt == getCardCount(ee)
       IN IF cnt >= EE_MAX_CARDS THEN [ee |-> ee, idx |-> -1]
          ELSE [ee |-> setCardCount(storeCardSlot(ee, cnt, uid), cnt + 1), idx |-> cnt]

\* for (i = idx; i < cnt - 1; i++) storeCardSlot(i, readCardSlot(i + 1)): slot
\* i + 1 is read before the next round overwrites it, so every slot from idx to
\* cnt - 2 ends as the store of what its successor held.
shiftDown(ee, idx, cnt) ==
  LET first == CARD_START_ADDR + idx * CARD_SLOT_BYTES
      end == CARD_START_ADDR + (cnt - 1) * CARD_SLOT_BYTES
      moved == [i \in idx..(cnt - 2) |-> readCardSlot(ee, i + 1)]
      slotOf(a) == (a - CARD_START_ADDR) \div CARD_SLOT_BYTES
      offset(a) == (a - CARD_START_ADDR) % CARD_SLOT_BYTES
  IN [a \in DOMAIN ee \cup (first..(end - 1)) |->
        IF a >= first /\ a < end
        THEN (IF offset(a) < Len(moved[slotOf(a)]) THEN moved[slotOf(a)][offset(a) + 1] ELSE 0)
        ELSE ee[a]]

zeroBytes(ee, base) ==
  [a \in DOMAIN ee \cup (base..(base + CARD_SLOT_BYTES - 1)) |->
     IF a >= base /\ a < base + CARD_SLOT_BYTES THEN 0 ELSE ee[a]]

\* removeCard: [ee, ok]
removeCard(ee, uid) ==
  LET idx == eeFindCardIndex(ee, uid)
      cnt == getCardCount(ee)
  IN IF idx < 0 THEN [ee |-> ee, ok |-> FALSE]
     ELSE [ee |-> setCardCount(zeroBytes(shiftDown(ee, idx, cnt),
                                         CARD_START_ADDR + (cnt - 1) * CARD_SLOT_BYTES),
                               cnt - 1),
           ok |-> TRUE]

\* The whole RAM and EEPROM of the image as one record e:
\*   [eeprom, rfidAddMode, rfidRemoveMode, rfidModeExpireAt, relay9_state,
\*    relay9_on_at, toggleState, logs, logCount, logPos, modeParam, beep, history]
\* beep is the last buzz(times, duration) as <<times, duration>>; history is
\* the sequence of entries handed to the log since setup().

\* char shortUid[6]: the first five characters, zero filled.
shortUidOf(uid) == [i \in 1..6 |-> IF i <= 5 /\ i <= Len(uid) THEN uid[i] ELSE 0]

RECURSIVE writeShort(_, _, _, _)
writeShort(ee, eaddr, short, i) ==
  IF i >= 6 THEN ee
  ELSE writeShort(eepromWriteByte(ee, eaddr + 6 + i, IF i < 5 THEN short[i + 1] ELSE 0),
                  eaddr, short, i + 1)

\* Variant: the count of held entries grows with every insertion.
logCountUncapped(c) == c + 1

\* if (logCount < MAX_LOGS) logCount++
logCountAfter(c) == IF c < MAX_LOGS THEN c + 1 ELSE c

pushLog(e, event, uidIndex, uid, t) ==
  LET ts == Div1000(t)
      le == [ts |-> ts, event |-> event,
             uidIndex |-> IF uidIndex < 0 THEN 255 ELSE uidIndex % 256,
             shortUid |-> shortUidOf(uid)]
      pos == (e.logPos + 1) % MAX_LOGS
      slot == IF pos = 0 THEN MAX_LOGS - 1 ELSE pos - 1
      eaddr == LOG_START_ADDR + slot * LOG_ENTRY_BYTES
      e0 == eepromWriteByte(e.eeprom, eaddr + 0, (ts \div (2^24)) % 256)
      e1 == eepromWriteByte(e0, eaddr + 1, (ts \div (2^16)) % 256)
      e2 == eepromWriteByte(e1, eaddr + 2, (ts \div (2^8)) % 256)
      e3 == eepromWriteByte(e2, eaddr + 3, ts % 256)
      e4 == eepromWriteByte(e3, eaddr + 4, event)
      e5 == eepromWriteByte(e4, eaddr + 5, IF uidIndex < 0 THEN 255 ELSE uidIndex)
  IN [e EXCEPT !.logs[e.logPos] = le,
               !.logPos = pos,
               !.logCount = logCountAfter(@),
               !.eeprom = writeShort(e5, eaddr, le.shortUid, 0),
               !.history = Append(@, le)]

writeEEPROMRelayState(ee, addr, state) ==
  eepromWriteByte(ee, RELAY_STATE_ADDR + addr, IF state THEN 1 ELSE 0)
readEEPROMRelayState(ee, addr) == eepromReadByte(ee, RELAY_STATE_ADDR + addr) # 0

\* setRelay(pin, addr, state) of the EEPROM images
setSwitchRelay(e, addr, state) ==
  [e EXCEPT !.eeprom = writeEEPROMRelayState(@, addr, state)]

setRelay9(e, state) ==
  [e EXCEPT !.relay9_state = state, !.eeprom = writeEEPROMRelayState(@, 8, state)]

\* buzz(times, duration) blocks for times * 2 * duration ms.
buzzMs(pattern) == pattern[1] * 2 * pattern[2]

BEEP_OK == <<2, 100>>
BEEP_FAIL == <<2, 300>>
BEEP_GRANTED == <<3, 80>>

\* Both clear the mode flag after an Add or Remove scan; V1.0.2 also reports
\* Mode = 0.
processUID(img, e, uid, t) ==
  IF Len(uid) = 0 THEN e
  ELSE IF e.rfidAddMode THEN
    LET r == addCard(e.eeprom, uid)
        e1 == [e EXCEPT !.eeprom = r.ee]
        e2 == IF r.idx >= 0 THEN [pushLog(e1, 3, r.idx, uid, t) EXCEPT !.beep = BEEP_OK]
              ELSE [e1 EXCEPT !.beep = BEEP_FAIL]
    IN [e2 EXCEPT !.rfidAddMode = FALSE, !.modeParam = IF img = "v102" THEN 0 ELSE @]
  ELSE IF e.rfidRemoveMode THEN
    LET r == removeCard(e.eeprom, uid)
        e1 == [e EXCEPT !.eeprom = r.ee]
        e2 == IF r.ok THEN [pushLog(e1, 4, -1, uid, t) EXCEPT !.beep = BEEP_OK]
              ELSE [e1 EXCEPT !.beep = BEEP_FAIL]
    IN [e2 EXCEPT !.rfidRemoveMode = FALSE, !.modeParam = IF img = "v102" THEN 0 ELSE @]
  ELSE
    LET idx == eeFindCardIndex(e.eeprom, uid)
    IN IF idx >= 0
       THEN [setRelay9(pushLog(e, 1, idx, uid, t), TRUE) EXCEPT !.relay9_on_at = t,
                                                               !.beep = BEEP_GRANTED]
       ELSE [pushLog(e, 2, -1, uid, t) EXCEPT !.beep = BEEP_FAIL]

\* millis() after processUID and the delay(150) that follows it.
afterScan(e1, uid, t) ==
  Add32(t, (IF Len(uid) = 0 THEN 0 ELSE buzzMs(e1.beep)) + SCAN_DELAY_MS)

\* loop() after the reader poll: the mode timeout, then the access relay's auto-off.
loopTail(img, e, t) ==
  LET e1 == IF (e.rfidAddMode \/ e.rfidRemoveMode) /\ Gt32(t, e.rfidModeExpireAt)
            THEN [e EXCEPT !.rfidAddMode = FALSE, !.rfidRemoveMode = FALSE,
                           !.modeParam = IF img = "v102" THEN 0 ELSE @]
            ELSE e
  IN IF e1.relay9_state /\ GtNum(Sub32(t, e1.relay9_on_at), RELAY9_AUTO_OFF_MS)
     THEN setRelay9(e1, FALSE) ELSE e1

\* Devices as <<name, number>>.
RFID_MANAGER == <<"RFID Manager", 0>>
RFID_ADD_SWITCH == <<"RFID_Add_Mode", 0>>
RFID_REMOVE_SWITCH == <<"RFID_Remove_Mode", 0>>
SwitchDev(i) == <<"Switch", i + 1>>

powerSwitch(e, device, val) ==
  LET i == CHOOSE k \in Chan : device = SwitchDev(k)
  IN [setSwitchRelay(e, i, val) EXCEPT !.toggleState[i] = val]

\* write_callback of V1.0.2: the integer Mode parameter, then the switches.
writeV102(e, device, param, val, t) ==
  IF device = RFID_MANAGER /\ param = "Mode"
  THEN IF val = 1
         THEN [e EXCEPT !.rfidAddMode = TRUE, !.rfidRemoveMode = FALSE,
                        !.rfidModeExpireAt = Add32(t, RFID_MODE_TIMEOUT_MS), !.modeParam = val]
       ELSE IF val = 2
         THEN [e EXCEPT !.rfidRemoveMode = TRUE, !.rfidAddMode = FALSE,
                        !.rfidModeExpireAt = Add32(t, RFID_MODE_TIMEOUT_MS), !.modeParam = val]
       ELSE [e EXCEPT !.rfidAddMode = FALSE, !.rfidRemoveMode = FALSE, !.modeParam = val]
  ELSE IF param = "Power" /\ \E k \in Chan : device = SwitchDev(k)
  THEN powerSwitch(e, device, val)
  ELSE e

\* write_callback of the switch image: any Power write to a mode switch enters
\* the mode.
writeSw(e, device, param, val, t) ==
  IF param # "Power" THEN e
  ELSE IF \E k \in Chan : device = SwitchDev(k) THEN powerSwitch(e, device, val)
  ELSE IF device = RFID_ADD_SWITCH
    THEN [e EXCEPT !.rfidAddMode = TRUE, !.rfidRemoveMode = FALSE,
                   !.rfidModeExpireAt = Add32(t, RFID_MODE_TIMEOUT_MS)]
  ELSE IF device = RFID_REMOVE_SWITCH
    THEN [e EXCEPT !.rfidRemoveMode = TRUE, !.rfidAddMode = FALSE,
                   !.rfidModeExpireAt = Add32(t, RFID_MODE_TIMEOUT_MS)]
  ELSE e

ensureEepromInitialized(ee) ==
  IF getCardCount(ee) > EE_MAX_CARDS THEN setCardCount(ee, 0) ELSE ee

RECURSIVE restoreRelays(_, _)
restoreRelays(e, i) ==
  IF i > 7 THEN e
  ELSE LET st == readEEPROMRelayState(e.eeprom, i)
       IN restoreRelays([setSwitchRelay(e, i, st) EXCEPT !.toggleState[i] = st], i + 1)

ZeroLog == [ts |-> 0, event |-> 0, uidIndex |-> 0, shortUid |-> <<0, 0, 0, 0, 0, 0>>]

\* setup() of the EEPROM images on the EEPROM content ee.
eeSetup(ee) ==
  LET e0 == [eeprom |-> ensureEepromInitialized(ee),
             rfidAddMode |-> FALSE, rfidRemoveMode |-> FALSE, rfidModeExpireAt |-> Z32,
             relay9_state |-> FALSE, relay9_on_at |-> Z32,
             toggleState |-> [i \in Chan |-> FALSE],
             logs |-> [i \in 0..(MAX_LOGS - 1) |-> ZeroLog], logCount |-> 0, logPos |-> 0,
             modeParam |-> 0, beep |-> <<0, 0>>, history |-> <<>>]
      e1 == restoreRelays(e0, 0)
  IN setRelay9(e1, readEEPROMRelayState(e1.eeprom, 8))

-----------------------------------------------------------------------------
(* Initial states: setup() on a durable image the program has written *)

CloudImages == {"cloud", "single"}
EepromImages == {"v102", "sw"}

\* The step in which time passes between handlers: the pulse length of a cloud
\* image; just over the mode timeout of an EEPROM image, whose scans take time
\* themselves (buzz() and delay() block) and so fall inside a running pulse.
TickDelta(img) == IF img \in CloudImages THEN PULSE_MS ELSE RFID_MODE_TIMEOUT_MS + 1

FillerStr(i) == uidToString(FillerUid(i))
\* Filler i was enrolled with Mark1 and Mark2 set as the bits of i.
FillerMask(i) == i % 4

\* NVS after fillers 0..k-1 were enrolled one by one on a factory-new device.
cloudImage(k) ==
  saveCardsToNVS(<<>>, [i \in 1..k |-> [uid |-> FillerStr(i - 1), mask |-> FillerMask(i - 1)]])

\* A never written EEPROM.
BlankEeprom == [a \in {} |-> 255]

\* EEPROM after fillers 0..k-1 were enrolled one by one, in the first second
\* of uptime, on a factory-new device: the first setup() found every relay byte
\* 0xFF and wrote it back as 1, the access relay has since switched off, and
\* every enrolment stored its slot, the count and a log entry.
eeImage(k) ==
  LET booted == [eeSetup(BlankEeprom).eeprom EXCEPT ![RELAY_STATE_ADDR + 8] = 0]
      inSlots(a) == a >= CARD_START_ADDR /\ a < CARD_START_ADDR + k * CARD_SLOT_BYTES
      inLogs(a) == /\ a >= LOG_START_ADDR /\ a < LOG_START_ADDR + MAX_LOGS * LOG_ENTRY_BYTES
                   /\ (a - LOG_START_ADDR) \div LOG_ENTRY_BYTES < k
      slotOf(a) == (a - CARD_START_ADDR) \div CARD_SLOT_BYTES
      offset(a) == (a - CARD_START_ADDR) % CARD_SLOT_BYTES
      logSlot(a) == (a - LOG_START_ADDR) \div LOG_ENTRY_BYTES
      logByte(a) == (a - LOG_START_ADDR) % LOG_ENTRY_BYTES
      \* the enrolment whose log entry is the last written to log slot j
      lastIn(j) == CHOOSE i \in 0..(k - 1) :
                     i % MAX_LOGS = j /\ \A n \in (i + 1)..(k - 1) : n % MAX_LOGS # j
      entryByte(i, b) == IF b < 4 THEN 0
                         ELSE IF b = 4 THEN 3
                         ELSE IF b = 5 THEN i % 256
                         ELSE shortUidOf(FillerStr(i))[b - 5]
  IN [a \in DOMAIN booted \cup {x \in 0..(EEPROM_SIZE - 1) : inSlots(x) \/ inLogs(x)} |->
        IF a = 0 THEN k
        ELSE IF inSlots(a)
          THEN (IF offset(a) < Len(FillerStr(slotOf(a)))
                THEN FillerStr(slotOf(a))[offset(a) + 1] ELSE 0)
        ELSE IF inLogs(a) THEN entryByte(lastIn(logSlot(a)), logByte(a))
        ELSE booted[a]]

\* The card slot that the relay-state bytes 100..108 lie in.
RelaySlot == (RELAY_STATE_ADDR - CARD_START_ADDR) \div CARD_SLOT_BYTES

\* millis() when a behaviour starts before the counter wraps: one step of time before 0.
WindowStart(img) == Sub32(Z32, U32(TickDelta(img)))

\* The devices the model follows: image, enrolled cards at power-up, millis() then.
CloudBoots ==
  { <<"cloud", 0, WindowStart("cloud")>>, <<"cloud", MAX_CARDS - 1, Z32>>,
    <<"single", 0, WindowStart("single")>> }
EeBoots ==
  { <<"v102", 0, WindowStart("v102")>>, <<"v102", RelaySlot, Z32>>, <<"v102", EE_MAX_CARDS - 1, Z32>>,
    <<"sw", 0, WindowStart("sw")>> }

CloudIs(c) ==
  /\ cards = c.cards /\ nvs = c.nvs
  /\ addMode = c.md.addMode /\ removeMode = c.md.removeMode
  /\ modeStartMs = c.md.modeStartMs /\ statusStr = c.md.statusStr
  /\ mark = c.md.mark /\ buzz = c.md.buzz
  /\ relayState = c.rl.state /\ relayOffAt = c.rl.offAt
  /\ lastAccess = c.lastAccess

EeIs(e) ==
  /\ eeprom = e.eeprom
  /\ rfidAddMode = e.rfidAddMode /\ rfidRemoveMode = e.rfidRemoveMode
  /\ rfidModeExpireAt = e.rfidModeExpireAt
  /\ relay9_state = e.relay9_state /\ relay9_on_at = e.relay9_on_at
  /\ toggleState = e.toggleState
  /\ logs = e.logs /\ logCount = e.logCount /\ logPos = e.logPos
  /\ modeParam = e.modeParam /\ beep = e.beep
  /\ history = e.history

\* The image that is not running stays as it is built.
CloudIdle == setup(<<>>)
EeIdle == [eeSetup(BlankEeprom) EXCEPT !.eeprom = <<>>, !.logs = <<>>]

InitCloud ==
  /\ \E b \in CloudBoots :
       /\ fw = b[1]
       /\ CloudIs(setup(cloudImage(b[2])))
       /\ now = b[3]
  /\ scans = 0
  /\ EeIs(EeIdle)

InitEeprom ==
  /\ \E b \in EeBoots :
       /\ fw = b[1]
       /\ EeIs(eeSetup(eeImage(b[2])))
       /\ now = b[3]
  /\ scans = 0
  /\ CloudIs(CloudIdle)

Init == InitCloud \/ InitEeprom

-----------------------------------------------------------------------------
(* Actions *)

Cloud == [cards |-> cards, nvs |-> nvs,
          md |-> [addMode |-> addMode, removeMode |-> removeMode, modeStartMs |-> modeStartMs,
                  statusStr |-> statusStr, mark |-> mark, buzz |-> "none"],
          rl |-> [state |-> relayState, offAt |-> relayOffAt],
          lastAccess |-> lastAccess]

Ee == [eeprom |-> eeprom, rfidAddMode |-> rfidAddMode, rfidRemoveMode |-> rfidRemoveMode,
       rfidModeExpireAt |-> rfidModeExpireAt, relay9_state |-> relay9_state,
       relay9_on_at |-> relay9_on_at, toggleState |-> toggleState,
       logs |-> logs, logCount |-> logCount, logPos |-> logPos,
       modeParam |-> modeParam, beep |-> <<0, 0>>, history |-> history]

CloudBecomes(c) ==
  /\ cards' = c.cards /\ nvs' = c.nvs
  /\ addMode' = c.md.addMode /\ removeMode' = c.md.removeMode
  /\ modeStartMs' = c.md.modeStartMs /\ statusStr' = c.md.statusStr
  /\ mark' = c.md.mark /\ buzz' = c.md.buzz
  /\ relayState' = c.rl.state /\ relayOffAt' = c.rl.offAt
  /\ lastAccess' = c.lastAccess

EeBecomes(e) ==
  /\ eeprom' = e.eeprom
  /\ rfidAddMode' = e.rfidAddMode /\ rfidRemoveMode' = e.rfidRemoveMode
  /\ rfidModeExpireAt' = e.rfidModeExpireAt
  /\ relay9_state' = e.relay9_state /\ relay9_on_at' = e.relay9_on_at
  /\ toggleState' = e.toggleState
  /\ logs' = e.logs /\ logCount' = e.logCount /\ logPos' = e.logPos
  /\ modeParam' = e.modeParam /\ beep' = e.beep
  /\ history' = e.history

\* Cards presented to the reader of a cloud image.
CloudCards == {uidToString(UID4), uidToString(UID7), FillerStr(3), <<>>}
\* Parameters the app writes on a cloud image.
CloudParams(img) ==
  {P_ADD_MODE, P_REMOVE_MODE}
    \cup {P_MARK(img, i) : i \in 0..(NumMarkInputs - 1)}
    \cup {P_RELAY(img, i) : i \in 0..(NumRelayInputs - 1)}

\* Cards presented to the reader of an EEPROM image.
EeCards == {uidToString(UID7), uidToString(UID10a), FillerStr(0), <<>>}

\* The span of time a behaviour covers, in ms from WindowStart(fw).
Horizon ==
  IF fw \in CloudImages THEN MaxElapsedCloudSec * 1000 ELSE MaxElapsedEeSec * 1000

\* Time passes between two handlers, within the span the model covers.
Tick ==
  /\ ~Gt32(Sub32(Add32(now, TickDelta(fw)), WindowStart(fw)), U32(Horizon))
  /\ now' = Add32(now, TickDelta(fw))
  /\ UNCHANGED <<fw, scans, buzz, cloudVars, eepromVars>>

\* What one iteration of loop() of a cloud image leaves when the reader holds
\* card: the sweep and the mode timeout, then the card branch.
CloudScan(card) == processCard(fw, loopHead(fw, Cloud, now), card, pollTime(Cloud, now))

\* One iteration of loop() of a cloud image; card is what the reader holds.
CloudLoop(card) ==
  /\ fw \in CloudImages
  /\ card # NoCard => scans < MaxScans
  /\ CloudBecomes(IF card = NoCard THEN loopHead(fw, Cloud, now) ELSE CloudScan(card))
  /\ now' = pollTime(Cloud, now)
  /\ scans' = IF card = NoCard THEN scans ELSE scans + 1
  /\ UNCHANGED <<fw, eepromVars>>

\* The app writes a parameter of a cloud image.
CloudWrite(pname, v) ==
  /\ fw \in CloudImages
  /\ CloudBecomes(write_callback(fw, Cloud, pname, v, now))
  /\ UNCHANGED <<fw, now, scans, eepromVars>>

\* Power cycle of a cloud image: setup() on what NVS holds.
CloudRestart ==
  /\ fw \in CloudImages
  /\ CloudBecomes(setup(nvs))
  /\ now' = Z32
  /\ UNCHANGED <<fw, scans, eepromVars>>

\* What processUID leaves when an EEPROM image reads card, before the rest of
\* loop() runs.
EeScan(card) == processUID(fw, Ee, card, now)

\* One iteration of loop() of an EEPROM image; card is what the reader holds.
EeIteration(card) ==
  /\ LET e1 == IF card = NoCard THEN Ee ELSE EeScan(card)
         t1 == IF card = NoCard THEN now ELSE afterScan(e1, card, now)
     IN /\ EeBecomes(loopTail(fw, e1, t1))
        /\ now' = t1
  /\ scans' = IF card = NoCard THEN scans ELSE scans + 1
  /\ UNCHANGED <<fw, buzz, cloudVars>>

EeLoop(card) ==
  /\ fw \in EepromImages
  /\ card # NoCard => scans < MaxScans
  /\ EeIteration(card)

\* The app writes a parameter of an EEPROM image.
EeWrite(device, param, val) ==
  /\ fw \in EepromImages
  /\ EeBecomes(IF fw = "v102" THEN writeV102(Ee, device, param, val, now)
               ELSE writeSw(Ee, device, param, val, now))
  /\ UNCHANGED <<fw, now, scans, buzz, cloudVars>>

\* Power cycle of an EEPROM image: setup() on what the EEPROM holds.
EeRestart ==
  /\ fw \in EepromImages
  /\ EeBecomes(eeSetup(eeprom))
  /\ now' = Z32
  /\ UNCHANGED <<fw, scans, buzz, cloudVars>>

\* An iteration of loop() that processes card in Enroll or Unenroll mode and
\* loses power after the first j primitive writes of its saveCardsToNVS; the
\* image then starts again on what NVS holds.
CloudCrash(card, j) ==
  /\ fw \in CloudImages
  /\ scans < MaxScans
  /\ LET mode == scanMode(loopHead(fw, Cloud, now).md)
     IN /\ mode # "normal"
        /\ mode = "remove" => findCardIndex(cards, card) >= 0
  /\ LET after == CloudScan(card)
     IN /\ j < numSaveWrites(nvs, after.cards)
        /\ CloudBecomes(setup(savePartial(nvs, after.cards, j)))
  /\ now' = Z32
  /\ scans' = scans + 1
  /\ UNCHANGED <<fw, eepromVars>>

NextCloud ==
  \/ \E card \in CloudCards \cup {NoCard} : CloudLoop(card)
  \/ \E pname \in CloudParams(fw), v \in BOOLEAN : CloudWrite(pname, v)
  \/ CloudRestart
  \/ Tick

NextEeprom ==
  \/ \E card \in EeCards \cup {NoCard} : EeLoop(card)
  \/ \E i \in 0..(NumRelayInputs - 1), b \in BOOLEAN : EeWrite(SwitchDev(i), "Power", b)
  \/ \E v \in 0..2 : fw = "v102" /\ EeWrite(RFID_MANAGER, "Mode", v)
  \/ \E d \in {RFID_ADD_SWITCH, RFID_REMOVE_SWITCH}, b \in BOOLEAN :
        fw = "sw" /\ EeWrite(d, "Power", b)
  \/ EeRestart
  \/ Tick

Next == NextCloud \/ NextEeprom

\* Filling the log: a V1.0.2 device with cards enrolled is presented an
\* enrolled and an unknown card, in Normal mode, more often than the log has
\* entries.
LogCards == {FillerStr(0), uidToString(UID7)}

InitLog ==
  /\ fw = "v102"
  /\ EeIs(eeSetup(eeImage(RelaySlot)))
  /\ now = Z32
  /\ scans = 0
  /\ CloudIs(CloudIdle)

LogLoop(card) ==
  /\ fw \in EepromImages
  /\ scans < MaxLogScans
  /\ eeFindCardIndex(eeprom, card) >= 0
       => Cardinality({i \in 1..Len(history) : history[i].event = 1}) < MaxLogGrants
  /\ EeIteration(card)

NextLog == \E card \in LogCards : LogLoop(card)

SpecCloud == InitCloud /\ [][NextCloud]_vars
SpecEeprom == InitEeprom /\ [][NextEeprom]_vars
Spec == Init /\ [][Next]_vars
SpecLog == InitLog /\ [][NextLog]_vars

\* A cloud image with a few cards enrolled whose power may fail while the
\* registry is saved.
InitCrash ==
  /\ fw = "cloud"
  /\ CloudIs(setup(cloudImage(NumCrashCards)))
  /\ now = Z32
  /\ scans = 0
  /\ EeIs(EeIdle)

\* The numbers of primitive writes after which power may fail: a save of the
\* registry of this device writes at most 2 * (NumCrashCards + MaxScans) + 1
\* values.
CrashPoints == 0..(2 * (NumCrashCards + MaxScans))

NextCrash ==
  \/ NextCloud
  \/ \E card \in CloudCards, j \in CrashPoints : CloudCrash(card, j)

SpecCrash == InitCrash /\ [][NextCrash]_vars

\* Channels pulsed again while they are on: a cloud, a single-device and a
\* V1.0.2 device with cards enrolled, in Normal mode, with time passing in
\* steps shorter than a pulse.  The card presented is enrolled (for R1 and R2
\* on the NVS images); the first relay parameter is also written by the app.
InitPulse ==
  /\ now = Z32
  /\ scans = 0
  /\ \/ fw \in CloudImages /\ CloudIs(setup(cloudImage(NumPulseCards))) /\ EeIs(EeIdle)
     \/ fw = "v102" /\ EeIs(eeSetup(eeImage(NumPulseCards))) /\ CloudIs(CloudIdle)

PulseTick ==
  /\ now[1] = 0 /\ now[2] < MaxPulseTicks * PulseStepMs
  /\ now' = Add32(now, PulseStepMs)
  /\ UNCHANGED <<fw, scans, buzz, cloudVars, eepromVars>>

NextPulse ==
  \/ \E card \in {FillerStr(NumPulseCards - 1), NoCard} : CloudLoop(card)
  \/ \E v \in BOOLEAN : CloudWrite(P_RELAY(fw, 0), v)
  \/ \E card \in {FillerStr(0), NoCard} : EeLoop(card)
  \/ PulseTick

SpecPulse == InitPulse /\ [][NextPulse]_vars

\* A mode request delivered in the middle of a scan.  write_callback is called
\* by the RainMaker agent from its own task while loop() runs in the Arduino
\* task, and neither takes a lock: a card branch that has been entered, with
\* its NVS or EEPROM writes and its buzzer delays, can be interrupted by a mode
\* write before it executes its trailing exit to Normal.  The branch and the
\* callback write disjoint variables up to that exit, so every such
\* interleaving leaves what the branch leaves, with the mode variables as the
\* callback and then the trailing statements of the branch set them.
CloudRace(card, pname) ==
  /\ fw \in CloudImages
  /\ scans < MaxScans
  /\ LET c0 == loopHead(fw, Cloud, now)
         t == pollTime(Cloud, now)
         c1 == processCard(fw, c0, card, t)
         cb == write_callback(fw, c0, pname, TRUE, t)
     IN /\ scanMode(c0.md) # "normal"
        /\ CloudBecomes([c1 EXCEPT !.md = exitToNormal(fw, [cb.md EXCEPT !.buzz = c1.md.buzz], FALSE)])
        /\ now' = t
  /\ scans' = scans + 1
  /\ UNCHANGED <<fw, eepromVars>>

\* V1.0.2: the add branch of processUID ends with rfidAddMode = false, the
\* remove branch with rfidRemoveMode = false, each followed by the report of
\* Mode 0.
EeRace(card, val) ==
  /\ fw = "v102"
  /\ scans < MaxScans
  /\ Len(card) > 0
  /\ rfidAddMode \/ rfidRemoveMode
  /\ LET e1 == processUID(fw, Ee, card, now)
         cb == writeV102(Ee, RFID_MANAGER, "Mode", val, now)
         e2 == [e1 EXCEPT !.rfidAddMode = IF rfidAddMode THEN FALSE ELSE cb.rfidAddMode,
                          !.rfidRemoveMode = IF rfidAddMode THEN cb.rfidRemoveMode ELSE FALSE,
                          !.rfidModeExpireAt = cb.rfidModeExpireAt]
         t1 == afterScan(e1, card, now)
     IN /\ EeBecomes(loopTail(fw, e2, t1))
        /\ now' = t1
  /\ scans' = scans + 1
  /\ UNCHANGED <<fw, buzz, cloudVars>>

InitRace == InitPulse

NextRace ==
  \/ \E card \in {FillerStr(0), uidToString(UID4), NoCard} : CloudLoop(card)
  \/ \E pname \in {P_ADD_MODE, P_REMOVE_MODE}, v \in BOOLEAN : CloudWrite(pname, v)
  \/ \E card \in {FillerStr(0), uidToString(UID4)}, pname \in {P_ADD_MODE, P_REMOVE_MODE} :
        CloudRace(card, pname)
  \/ \E card \in {FillerStr(0), uidToString(UID7), NoCard} : EeLoop(card)
  \/ \E v \in 0..2 : fw = "v102" /\ EeWrite(RFID_MANAGER, "Mode", v)
  \/ \E card \in {FillerStr(0), uidToString(UID7)}, v \in 1..2 : EeRace(card, v)
  \/ PulseTick

SpecRace == InitRace /\ [][NextRace]_vars
-----------------------------------------------------------------------------
(* Properties *)

\* The mode in which a card presented in this state is processed: a cloud image
\* runs the mode timeout before it polls the reader, an EEPROM image after.
CloudScanMode == scanMode(loopHead(fw, Cloud, now).md)
EeScanMode == IF rfidAddMode THEN "add" ELSE IF rfidRemoveMode THEN "remove" ELSE "normal"

\* The registry an EEPROM image reads back: the identifiers of slots 0..count-1.
eeRegistry(ee) == [i \in 1..getCardCount(ee) |-> readCardSlot(ee, i - 1)]

\* C1: the enrolled count never exceeds MAX_CARDS, and an Enroll-mode scan of a
\* card that is not enrolled, at capacity, leaves the registry (identifiers,
\* masks, order, count) unchanged in memory and in durable storage.
C1_Capacity ==
  /\ fw \in CloudImages =>
       /\ Len(cards) <= MAX_CARDS
       /\ nvsGet(nvs, NVS_KEY_COUNT, 0) <= MAX_CARDS
       /\ \A card \in CloudCards :
            ( /\ CloudScanMode = "add"
              /\ Len(cards) = MAX_CARDS
              /\ findCardIndex(cards, card) < 0 )
            => LET after == CloudScan(card)
               IN after.cards = cards /\ after.nvs = nvs
  /\ fw \in EepromImages =>
       /\ getCardCount(eeprom) <= EE_MAX_CARDS
       /\ \A card \in EeCards :
            ( /\ EeScanMode = "add"
              /\ getCardCount(eeprom) = EE_MAX_CARDS
              /\ eeFindCardIndex(eeprom, card) < 0 )
            => LET after == EeScan(card)
               IN /\ eeRegistry(after.eeprom) = eeRegistry(eeprom)
                  /\ getCardCount(after.eeprom) = EE_MAX_CARDS

\* A full cloud registry just after an Enroll-mode scan (the add pattern has
\* sounded) of a card that is still not in it.
C1_Witness ==
  /\ fw \in CloudImages
  /\ buzz = "add"
  /\ Len(cards) = MAX_CARDS
  /\ Len(lastAccess.uid) > 0
  /\ findCardIndex(cards, lastAccess.uid) < 0
  /\ loadCardsFromNVS(nvs) = cards

\* C2: in Normal mode a scan of an enrolled card whose mask m is not zero
\* switches on exactly the channels of m, each with the deadline now + 5000 ms
\* (modulo 2^32), leaves state and deadline of every other channel as the
\* loop's sweep left them, and reports GRANTED with the list of m.
C2_GrantPulsesMask ==
  fw \in CloudImages =>
    \A card \in CloudCards :
      LET idx == findCardIndex(cards, card)
      IN ( /\ CloudScanMode = "normal"
           /\ idx >= 0
           /\ cards[idx + 1].mask # 0 )
         => LET m == cards[idx + 1].mask
                before == loopHead(fw, Cloud, now).rl
                after == CloudScan(card)
                t == pollTime(Cloud, now)
            IN /\ \A i \in Chan :
                    IF Bit(m, i)
                    THEN after.rl.state[i] /\ after.rl.offAt[i] = Add32(t, PULSE_MS)
                    ELSE /\ after.rl.state[i] = before.state[i]
                         /\ after.rl.offAt[i] = before.offAt[i]
               /\ after.lastAccess =
                    [uid |-> card, outcome |-> "GRANTED", list |-> maskToList(m)]

\* A cloud image just after the granted pattern sounded for a card of mask
\* R1,R2: both channels are on with the deadline 5 s from now, the rest off.
C2_Witness ==
  /\ fw \in CloudImages
  /\ buzz = "granted"
  /\ lastAccess.outcome = "GRANTED"
  /\ lastAccess.list = <<1, 2>>
  /\ \A i \in Chan : relayState[i] <=> i \in {0, 1}
  /\ \A i \in {0, 1} : relayOffAt[i] = Add32(now, PULSE_MS)

\* C3: in Normal mode a scan of a card that is not enrolled, or is enrolled
\* with mask 0, switches on no channel, changes no deadline and reports DENIED
\* (an EEPROM image: the access relay and its start time stay, the fail pattern
\* sounds and a DENIED entry is logged).
C3_DenyLeavesChannels ==
  /\ fw \in CloudImages =>
       \A card \in CloudCards :
         LET idx == findCardIndex(cards, card)
         IN ( /\ CloudScanMode = "normal"
              /\ (idx < 0 \/ cards[idx + 1].mask = 0) )
            => LET after == CloudScan(card)
               IN /\ after.rl = loopHead(fw, Cloud, now).rl
                  /\ after.lastAccess = [uid |-> card, outcome |-> "DENIED", list |-> <<>>]
  /\ fw \in EepromImages =>
       \A card \in EeCards :
         ( /\ EeScanMode = "normal"
           /\ Len(card) > 0
           /\ eeFindCardIndex(eeprom, card) < 0 )
         => LET after == EeScan(card)
            IN /\ after.relay9_state = relay9_state
               /\ after.relay9_on_at = relay9_on_at
               /\ after.toggleState = toggleState
               /\ after.beep = BEEP_FAIL
               /\ after.logs[logPos].event = 2

\* A cloud image just after the denied pattern sounded for a card that is
\* enrolled with mask 0: DENIED is reported and no channel is on.
C3_Witness ==
  /\ fw \in CloudImages
  /\ buzz = "denied"
  /\ lastAccess.outcome = "DENIED"
  /\ findCardIndex(cards, lastAccess.uid) >= 0
  /\ cards[findCardIndex(cards, lastAccess.uid) + 1].mask = 0
  /\ \A i \in Chan : ~relayState[i] /\ relayOffAt[i] = Z32

\* The last entry pushLog wrote to the RAM log.
lastLog == logs[(logPos + MAX_LOGS - 1) % MAX_LOGS]

\* The last scan the image logged since power-up enrolled this card.
JustEnrolled(card) ==
  /\ Len(card) > 0
  /\ logCount > 0
  /\ lastLog.event = 3
  /\ lastLog.shortUid = shortUidOf(card)

\* C4: a loop iteration that processes a card in Normal mode leaves every slot
\* of the registry and the count as they read before it, the write of the
\* access relay's persisted state included.
C4_NormalScanKeepsRegistry ==
  [][\A card \in EeCards :
       ( /\ fw \in EepromImages
         /\ EeScanMode = "normal"
         /\ EeLoop(card) )
       => /\ eeRegistry(eeprom') = eeRegistry(eeprom)
          /\ getCardCount(eeprom') = getCardCount(eeprom)]_vars

\* C5: an Enroll-mode scan of a card that is not enrolled, below capacity,
\* appends exactly one card with the scanned identifier and the mask whose bit
\* i is staged mark i; the cards enrolled before keep identifier and mask, and
\* the mode becomes Normal.
C5_EnrollAppends ==
  fw \in CloudImages =>
    \A card \in CloudCards :
      ( /\ CloudScanMode = "add"
        /\ Len(cards) < MAX_CARDS
        /\ findCardIndex(cards, card) < 0 )
      => LET after == CloudScan(card)
             new == after.cards[Len(cards) + 1]
         IN /\ Len(after.cards) = Len(cards) + 1
            /\ \A i \in 1..Len(cards) : after.cards[i] = cards[i]
            /\ new.uid = card
            /\ \A i \in Chan : Bit(new.mask, i) <=> mark[i]
            /\ ~after.md.addMode /\ ~after.md.removeMode
            /\ after.md.statusStr = "NORMAL"

\* A cloud image just after the add pattern sounded: the scanned card is the
\* last of at least two, enrolled for R1 as Mark1 was staged, and the mode is
\* Normal.
C5_Witness ==
  /\ fw \in CloudImages
  /\ buzz = "add"
  /\ Len(cards) >= 2
  /\ Len(cards) < MAX_CARDS
  /\ findCardIndex(cards, lastAccess.uid) = Len(cards) - 1
  /\ Len(lastAccess.uid) > 0
  /\ cards[Len(cards)].mask = 1
  /\ lastAccess.list = <<1>>
  /\ ~addMode /\ ~removeMode /\ statusStr = "NORMAL"

\* C6: a second Enroll-mode scan of the card the previous scan enrolled leaves
\* the number of enrolled cards as it was.
C6_ReEnrollKeepsSize ==
  [][\A card \in EeCards :
       ( /\ fw \in EepromImages
         /\ EeScanMode = "add"
         /\ JustEnrolled(card)
         /\ EeLoop(card) )
       => getCardCount(eeprom') = getCardCount(eeprom)]_vars

\* C7: a card that was just enrolled is read back, after a restart, with the
\* identifier that was scanned.
C7_RoundTrip ==
  [][\A card \in EeCards :
       ( /\ fw \in EepromImages
         /\ JustEnrolled(card)
         /\ EeRestart )
       => \E i \in 1..getCardCount(eeprom') : eeRegistry(eeprom')[i] = card]_vars

\* C8: no two entries of the registry hold the same identifier.
C8_NoDuplicateIds ==
  fw \in EepromImages =>
    \A i, j \in 1..getCardCount(eeprom) :
      i # j => eeRegistry(eeprom)[i] # eeRegistry(eeprom)[j]

\* C9: an Unenroll-mode scan of the card the previous scan enrolled removes it:
\* the count drops by one and no entry holds the identifier any more.
C9_UnenrollRemoves ==
  [][\A card \in EeCards :
       ( /\ fw \in EepromImages
         /\ EeScanMode = "remove"
         /\ JustEnrolled(card)
         /\ EeLoop(card) )
       => /\ getCardCount(eeprom') = getCardCount(eeprom) - 1
          /\ \A i \in 1..getCardCount(eeprom') : eeRegistry(eeprom')[i] # card]_vars

\* C11: in Enroll mode, staging a mark and then requesting Unenroll leaves the
\* mode Unenroll (the Unenroll flag set, the Enroll flag clear) and the mark
\* that was staged cleared.
C11_UnenrollClearsMarks ==
  (fw \in CloudImages /\ addMode) =>
    \A i \in 0..(NumMarkInputs - 1) :
      LET staged == write_callback(fw, Cloud, P_MARK(fw, i), TRUE, now)
          after == write_callback(fw, staged, P_REMOVE_MODE, TRUE, now)
      IN /\ after.md.removeMode
         /\ ~after.md.addMode
         /\ ~after.md.mark[i]

\* millis() when the mode in force was entered, and the time since then.
eeModeEnteredAt == Sub32(rfidModeExpireAt, U32(RFID_MODE_TIMEOUT_MS))
eeModeElapsed == Sub32(now, eeModeEnteredAt)

\* C12: with no scan and no mode request, and millis() not wrapping meanwhile,
\* a loop iteration earlier than TIMEOUT after Enroll or Unenroll was entered
\* leaves the mode and the log as they are; an iteration later than TIMEOUT
\* sets the mode to Normal and appends exactly one entry to the log; an
\* iteration in Normal mode appends none.
C12_TimeoutRevertsAndLogs ==
  [][( /\ fw \in EepromImages
       /\ EeLoop(NoCard)
       /\ ~Gt32(eeModeEnteredAt, now)
       /\ ~Gt32(eeModeEnteredAt, rfidModeExpireAt) )
     => IF ~(rfidAddMode \/ rfidRemoveMode)
          THEN history' = history /\ ~rfidAddMode' /\ ~rfidRemoveMode'
        ELSE IF ~GeNum(eeModeElapsed, RFID_MODE_TIMEOUT_MS)
          THEN /\ rfidAddMode' = rfidAddMode /\ rfidRemoveMode' = rfidRemoveMode
               /\ history' = history
        ELSE IF GtNum(eeModeElapsed, RFID_MODE_TIMEOUT_MS)
          THEN /\ ~rfidAddMode' /\ ~rfidRemoveMode'
               /\ Len(history') = Len(history) + 1
        ELSE TRUE]_vars

\* A channel of a cloud image is switched on by pulseRelayAutoOff only, which
\* sets its deadline ms after millis(): the time since the pulse of a channel
\* that is on.
sincePulse(i) == Sub32(now, Sub32(relayOffAt[i], U32(PULSE_MS)))

\* C13: a loop iteration that reads no card leaves a channel on when fewer
\* than 5000 ms have passed since its pulse, and off when more than 5000 ms
\* have passed.
C13_PulseEndsAfterDuration ==
  [][( /\ fw \in CloudImages
       /\ CloudLoop(NoCard) )
     => \A i \in Chan :
          relayState[i] =>
            /\ ~GeNum(sincePulse(i), PULSE_MS) => relayState'[i]
            /\ GtNum(sincePulse(i), PULSE_MS) => ~relayState'[i]]_vars

\* C14: a manual Relay write of true that switches a channel on records no
\* auto-off deadline for it.
C14_ManualOnHasNoDeadline ==
  [][\A i \in 0..(NumRelayInputs - 1) :
       ( /\ fw \in CloudImages
         /\ CloudWrite(P_RELAY(fw, i), TRUE)
         /\ ~relayState[i]
         /\ relayState'[i] )
       => relayOffAt'[i] = Z32]_vars

\* C15: every step that takes the mode from Enroll or Unenroll to Normal
\* leaves every staged mark false.
C15_NormalClearsMarks ==
  [][( /\ fw \in CloudImages
       /\ addMode \/ removeMode
       /\ ~addMode' /\ ~removeMode' )
     => \A i \in Chan : ~mark'[i]]_vars

\* C16: an Enroll-mode scan of a card that is not enrolled, with the registry
\* at capacity, sounds the denied pattern, reports the card as DENIED and
\* leaves the mode Normal.
C16_FullEnrollIsDenied ==
  [][\A card \in CloudCards :
       ( /\ fw \in CloudImages
         /\ CloudScanMode = "add"
         /\ Len(cards) = MAX_CARDS
         /\ findCardIndex(cards, card) < 0
         /\ CloudLoop(card) )
       => /\ buzz' = "denied"
          /\ lastAccess' = [uid |-> card, outcome |-> "DENIED", list |-> <<>>]
          /\ ~addMode' /\ ~removeMode']_vars

\* C17: a loop iteration that processes a card with a non-empty identifier, in
\* whatever mode and with whatever outcome, appends exactly one entry to the
\* log, and every slot of the log but the one at the head keeps its entry.
C17_EveryScanLogsOnce ==
  [][\A card \in EeCards :
       ( /\ fw \in EepromImages
         /\ Len(card) > 0
         /\ EeLoop(card) )
       => /\ Len(history') = Len(history) + 1
          /\ \A i \in 1..Len(history) : history'[i] = history[i]
          /\ logPos' = (logPos + 1) % MAX_LOGS
          /\ \A i \in 0..(MAX_LOGS - 1) : i # logPos => logs'[i] = logs[i]]_vars

\* C18: the ring holds the most recent entries in insertion order: the head
\* position and the count stay within 0..MAX_LOGS-1 and 0..MAX_LOGS, the count
\* is the smaller of the number of insertions since setup() and MAX_LOGS, and
\* the k-th entry before the head is the k-th most recent insertion, for every
\* k up to the count (so after more than MAX_LOGS insertions exactly the
\* MAX_LOGS most recent are held and the older ones are gone).
C18_RingHoldsMostRecent ==
  fw \in EepromImages =>
    /\ logPos \in 0..(MAX_LOGS - 1)
    /\ logCount \in 0..MAX_LOGS
    /\ logCount = Min(Len(history), MAX_LOGS)
    /\ \A k \in 1..logCount :
         logs[(logPos + MAX_LOGS - k) % MAX_LOGS] = history[Len(history) - k + 1]

\* More entries were inserted than the log holds: the log is full, the oldest
\* entry held is at the head position, and the first insertion is in no slot.
C18_Witness ==
  /\ fw \in EepromImages
  /\ Len(history) > MAX_LOGS
  /\ logCount = MAX_LOGS
  /\ logs[logPos] = history[Len(history) - MAX_LOGS + 1]
  /\ \A i \in 0..(MAX_LOGS - 1) : logs[i] # history[1]

\* The twelve bytes of a log slot in EEPROM, and the bytes pushLog writes for
\* an entry.
durableLogBytes(ee, slot) ==
  [i \in 0..(LOG_ENTRY_BYTES - 1) |-> eepromReadByte(ee, LOG_START_ADDR + slot * LOG_ENTRY_BYTES + i)]
logEntryBytes(le) ==
  [i \in 0..(LOG_ENTRY_BYTES - 1) |->
     IF i < 4 THEN (le.ts \div (2^(8 * (3 - i)))) % 256
     ELSE IF i = 4 THEN le.event
     ELSE IF i = 5 THEN le.uidIndex
     ELSE le.shortUid[i - 5]]

\* C19: when the image restarts with the last entry of the durable log in the
\* slot before the head, the head after the restart is the slot that follows
\* that entry, where the next entry is to be written.
C19_RestartKeepsLogPosition ==
  [][( /\ fw \in EepromImages
       /\ EeRestart
       /\ logCount > 0
       /\ durableLogBytes(eeprom, (logPos + MAX_LOGS - 1) % MAX_LOGS) = logEntryBytes(lastLog) )
     => logPos' = logPos]_vars

\* C20: when power is lost between two primitive writes of the save of an
\* enrolment or a removal, the registry loaded at the restart holds no
\* identifier twice, and holds every card other than the scanned one with the
\* mask it had before.
C20_PowerLossKeepsOtherCards ==
  [][\A card \in CloudCards, j \in CrashPoints :
       CloudCrash(card, j)
       => /\ \A a, b \in 1..Len(cards') : cards'[a].uid = cards'[b].uid => a = b
          /\ \A i \in 1..Len(cards) :
               cards[i].uid # card => \E k \in 1..Len(cards') : cards'[k] = cards[i]]_vars

\* C21: after every handler of a cloud image has run to completion, the
\* registry that loadCardsFromNVS would load from NVS is the registry in memory:
\* the same identifiers with the same masks in the same order.
C21_DurableMatchesMemory ==
  fw \in CloudImages => loadCardsFromNVS(nvs) = cards

\* C22: a loop iteration that reads no card (the auto-off sweep and the mode
\* timeout run), or that processes a card in Normal mode, leaves durable
\* storage as it is: NVS on a cloud image, the EEPROM on an EEPROM image.
C22_OnlyEnrollWritesDurable ==
  [][/\ \A card \in CloudCards \cup {NoCard} :
          (CloudLoop(card) /\ (card = NoCard \/ CloudScanMode = "normal")) => nvs' = nvs
     /\ \A card \in EeCards \cup {NoCard} :
          (EeLoop(card) /\ (card = NoCard \/ EeScanMode = "normal")) => eeprom' = eeprom]_vars

\* C23: a loop iteration in which the reader delivers an identifier of length
\* zero, in any mode, leaves what the same iteration leaves when no card is
\* read: registry, durable storage, mode, marks, channel states and deadlines,
\* log and last-access report as they are, and no buzzer pattern.
C23_EmptyScanIgnored ==
  [][/\ CloudLoop(<<>>) => CloudBecomes(loopHead(fw, Cloud, now))
     /\ EeLoop(<<>>) => EeBecomes(loopTail(fw, Ee, now'))]_vars

\* C24: a loop iteration that processes a card in Enroll or Unenroll mode
\* leaves the mode Normal, whatever the outcome of the scan (enrolled, mask
\* replaced, registry full, removed, not found).
C24_ModeScanIsSingleShot ==
  [][/\ (fw \in CloudImages /\ scans' = scans + 1 /\ CloudScanMode # "normal")
          => \A card \in CloudCards :
               CloudLoop(card) => ~addMode' /\ ~removeMode' /\ statusStr' = "NORMAL"
     /\ (fw \in EepromImages /\ scans' = scans + 1 /\ EeScanMode # "normal")
          => \A card \in EeCards :
               (Len(card) > 0 /\ EeLoop(card)) => ~rfidAddMode' /\ ~rfidRemoveMode']_vars

\* An Unenroll-mode scan has just removed a card of a cloud image, and the
\* mode is Normal.
C24_Witness ==
  /\ fw \in CloudImages
  /\ buzz = "remove"
  /\ lastAccess.outcome = "GRANTED"
  /\ ~addMode /\ ~removeMode

\* C25: a write that switches a mode off (AddMode or RemoveMode false on a
\* cloud image, Mode 0 on V1.0.2, Power false of a mode switch on the switch
\* image) leaves the mode Normal, sounds no timeout pattern and leaves the
\* registry and durable storage as they are; in particular it never activates
\* Enroll or Unenroll.
C25_DisableLeavesNormal ==
  [][/\ \A pname \in {P_ADD_MODE, P_REMOVE_MODE} :
          CloudWrite(pname, FALSE)
          => /\ ~addMode' /\ ~removeMode'
             /\ buzz' # "timeout3"
             /\ cards' = cards /\ nvs' = nvs
     /\ (fw = "v102" /\ EeWrite(RFID_MANAGER, "Mode", 0))
          => ~rfidAddMode' /\ ~rfidRemoveMode' /\ eeprom' = eeprom
     /\ \A d \in {RFID_ADD_SWITCH, RFID_REMOVE_SWITCH} :
          (fw = "sw" /\ EeWrite(d, "Power", FALSE))
          => ~rfidAddMode' /\ ~rfidRemoveMode' /\ eeprom' = eeprom]_vars

\* C26: a request for Enroll while Unenroll is active, or for Unenroll while
\* Enroll is active, leaves the requested mode active and the other inactive,
\* starts the timeout anew at the time of the request, and plays no buzzer
\* pattern and logs nothing for the mode it replaces.
C26_SupersedeRestartsTimeout ==
  [][/\ (removeMode /\ CloudWrite(P_ADD_MODE, TRUE))
          => addMode' /\ ~removeMode' /\ modeStartMs' = now /\ buzz' = "none"
     /\ (addMode /\ CloudWrite(P_REMOVE_MODE, TRUE))
          => removeMode' /\ ~addMode' /\ modeStartMs' = now /\ buzz' = "none"
     /\ (rfidRemoveMode /\ (\/ fw = "v102" /\ EeWrite(RFID_MANAGER, "Mode", 1)
                            \/ fw = "sw" /\ EeWrite(RFID_ADD_SWITCH, "Power", TRUE)))
          => /\ rfidAddMode' /\ ~rfidRemoveMode'
             /\ rfidModeExpireAt' = Add32(now, RFID_MODE_TIMEOUT_MS)
             /\ beep' = <<0, 0>> /\ history' = history
     /\ (rfidAddMode /\ (\/ fw = "v102" /\ EeWrite(RFID_MANAGER, "Mode", 2)
                         \/ fw = "sw" /\ EeWrite(RFID_REMOVE_SWITCH, "Power", TRUE)))
          => /\ rfidRemoveMode' /\ ~rfidAddMode'
             /\ rfidModeExpireAt' = Add32(now, RFID_MODE_TIMEOUT_MS)
             /\ beep' = <<0, 0>> /\ history' = history]_vars

\* Unenroll has been active on a cloud image for some time without expiring:
\* the Enroll request made now replaces it and counts its timeout from now.
C26_Witness ==
  /\ fw \in CloudImages
  /\ removeMode /\ modeStartMs # now /\ ~modeExpired(Cloud.md, now)
  /\ LET c == write_callback(fw, Cloud, P_ADD_MODE, TRUE, now)
     IN c.md.addMode /\ ~c.md.removeMode /\ c.md.modeStartMs = now

\* C27: a mode request made in a state that is already the result of that same
\* request (made when the mode was entered) changes nothing: mode, start of
\* the timeout and deadline, staged marks, registry, durable storage and
\* channels stay as they are.
C27_RequestModeIdempotent ==
  [][/\ \A pname \in {P_ADD_MODE, P_REMOVE_MODE}, v \in BOOLEAN :
          ( /\ fw \in CloudImages
            /\ write_callback(fw, Cloud, pname, v, modeStartMs) = Cloud
            /\ CloudWrite(pname, v) )
          => UNCHANGED <<addMode, removeMode, modeStartMs, statusStr, mark, cards, nvs,
                         relayState, relayOffAt>>
     /\ \A v \in 0..2 :
          ( /\ fw = "v102"
            /\ writeV102(Ee, RFID_MANAGER, "Mode", v, eeModeEnteredAt) = Ee
            /\ EeWrite(RFID_MANAGER, "Mode", v) )
          => UNCHANGED <<rfidAddMode, rfidRemoveMode, rfidModeExpireAt, modeParam, eeprom,
                         relay9_state, relay9_on_at, toggleState>>
     /\ \A d \in {RFID_ADD_SWITCH, RFID_REMOVE_SWITCH}, b \in BOOLEAN :
          ( /\ fw = "sw"
            /\ writeSw(Ee, d, "Power", b, eeModeEnteredAt) = Ee
            /\ EeWrite(d, "Power", b) )
          => UNCHANGED <<rfidAddMode, rfidRemoveMode, rfidModeExpireAt, modeParam, eeprom,
                         relay9_state, relay9_on_at, toggleState>>]_vars

\* C28: a loop iteration that reads a card when Enroll or Unenroll has already
\* expired (more than the timeout has passed since the mode was entered, with
\* millis() not wrapping meanwhile) neither enrols nor removes: the registry has the cards it had (a
\* cloud image: in memory and in NVS; an EEPROM image: the same count, and the
\* scanned card enrolled exactly if it was).
C28_ExpiredModeScanIsNormal ==
  [][/\ (fw \in CloudImages /\ scans' = scans + 1 /\ modeExpired(Cloud.md, now))
          => \A card \in CloudCards :
               CloudLoop(card) => cards' = cards /\ nvs' = nvs
     /\ ( /\ fw \in EepromImages /\ scans' = scans + 1
          /\ (rfidAddMode \/ rfidRemoveMode)
          /\ ~Gt32(eeModeEnteredAt, now) /\ ~Gt32(eeModeEnteredAt, rfidModeExpireAt)
          /\ GtNum(eeModeElapsed, RFID_MODE_TIMEOUT_MS) )
          => \A card \in EeCards :
               (Len(card) > 0 /\ EeLoop(card))
               => /\ getCardCount(eeprom') = getCardCount(eeprom)
                  /\ (eeFindCardIndex(eeprom', card) >= 0) = (eeFindCardIndex(eeprom, card) >= 0)]_vars

C30_PulseRefreshesDeadline ==
  [][/\ fw \in CloudImages =>
          \A i \in Chan :
            /\ ( /\ relayState[i]
                 /\ \/ fw = "single" /\ CloudWrite(P_RELAY(fw, i), TRUE)
                    \/ /\ scans' = scans + 1 /\ CloudScanMode = "normal"
                       /\ \E card \in CloudCards :
                            LET idx == findCardIndex(cards, card)
                            IN /\ granted(cards, idx) /\ Bit(cards[idx + 1].mask, i)
                               /\ CloudLoop(card) )
               => relayState'[i] /\ relayOffAt'[i] = Add32(now', PULSE_MS)
            /\ ( /\ relayState[i] /\ ~GeNum(sincePulse(i), PULSE_MS)
                 /\ CloudLoop(NoCard) )
               => relayState'[i] /\ relayOffAt'[i] = relayOffAt[i]
     /\ fw \in EepromImages =>
          /\ ( /\ relay9_state /\ scans' = scans + 1 /\ EeScanMode = "normal"
               /\ \E card \in EeCards :
                    Len(card) > 0 /\ eeFindCardIndex(eeprom, card) >= 0 /\ EeLoop(card) )
             => relay9_state' /\ relay9_on_at' = now
          /\ ( /\ relay9_state /\ ~GtNum(Sub32(now, relay9_on_at), RELAY9_AUTO_OFF_MS)
               /\ EeLoop(NoCard) )
             => relay9_state' /\ relay9_on_at' = relay9_on_at]_vars

\* A single-device image two steps of time after power-up, at or after the
\* deadline of a pulse at power-up.  A card enrolled for R1 and R2 was granted
\* and Relay1 was written one step later: the loop has switched R2 off at its
\* deadline and left R1 on, with the deadline PULSE_MS after the write.
C30_Witness ==
  /\ fw = "single"
  /\ now = U32(2 * PulseStepMs)
  /\ GeNum(now, PULSE_MS)
  /\ scans = 1 /\ lastAccess.outcome = "GRANTED" /\ lastAccess.list = <<1, 2>>
  /\ relayState[0] /\ relayOffAt[0] = U32(PulseStepMs + PULSE_MS)
  /\ ~relayState[1] /\ relayOffAt[1] = Z32

\* C31: on a cloud image a channel has an auto-off deadline only while it is
\* on: a channel that is off (never pulsed, switched off by a Relay write, or
\* switched off by the sweep) has the deadline 0.
C31_DeadlineOnlyWhileOn ==
  fw \in CloudImages => \A i \in Chan : relayOffAt[i] # Z32 => relayState[i]

\* A cloud image after the sweep switched off R1 and R2, which the last scan
\* had pulsed: both are off and have no deadline.
C31_Witness ==
  /\ fw = "cloud"
  /\ lastAccess.outcome = "GRANTED" /\ lastAccess.list = <<1, 2>>
  /\ \A i \in {0, 1} : ~relayState[i] /\ relayOffAt[i] = Z32

\* C32: the sweep of a loop iteration that reads no card, run at millis() =
\* now, switches off exactly the channels whose deadline has been reached. A
\* deadline lies at most 5000 ms ahead; a channel whose deadline is 1..5000 ms
\* ahead of now, or that has none (relayOffAt = 0), keeps its state and its
\* deadline, and every other channel is off afterwards, with no deadline.
C32_SweepTurnsOffExactlyTheDue ==
  [][( /\ fw \in CloudImages
       /\ CloudLoop(NoCard) )
     => \A i \in Chan :
          LET ahead == Sub32(relayOffAt[i], now)
              later == ahead[1] = 0 /\ ahead[2] \in 1..PULSE_MS
          IN IF relayOffAt[i] = Z32 \/ later
             THEN relayState'[i] = relayState[i] /\ relayOffAt'[i] = relayOffAt[i]
             ELSE ~relayState'[i] /\ relayOffAt'[i] = Z32]_vars

\* After a sweep: a scan at 0 pulsed R1 and R2 and Relay1 was written again
\* at PulseStepMs; only the sweep can have switched R2 off, while R1 is still
\* on with the deadline of its second pulse.
C32_Witness ==
  /\ fw = "single"
  /\ lastAccess.outcome = "GRANTED" /\ lastAccess.list = <<1, 2>>
  /\ relayState[0] /\ relayOffAt[0] = U32(PulseStepMs + PULSE_MS)
  /\ ~relayState[1] /\ relayOffAt[1] = Z32

\* C33: on an EEPROM image the card slots and the persisted relay states do
\* not overlap: a Power write to a switch and the restore of the relay states
\* in setup() leave every card slot reading as before, and a scan in Enroll
\* or Unenroll mode leaves the persisted state of every switch as it was.
C33_DurableRegionsDisjoint ==
  [][( /\ ( /\ fw \in EepromImages
            /\ \/ EeRestart
               \/ \E i \in 0..(NumRelayInputs - 1), b \in BOOLEAN : EeWrite(SwitchDev(i), "Power", b) )
          => eeRegistry(eeprom') = eeRegistry(eeprom)
       /\ ( /\ fw \in EepromImages
            /\ EeScanMode \in {"add", "remove"}
            /\ scans' = scans + 1 )
          => \A card \in EeCards :
               EeLoop(card) =>
                 \A addr \in Chan :
                   readEEPROMRelayState(eeprom', addr) = readEEPROMRelayState(eeprom, addr) )]_vars

\* C34: on a cloud image, whatever millis() was at the pulse, a channel that
\* is on is waiting for the sweep (it has a deadline, so an iteration of the
\* loop at or after it switches the channel off), and a loop iteration that
\* reads no card switches a channel off only when 5000 ms or more have passed
\* since its pulse.
C34_PulseEndsForEveryClockValue ==
  [][( fw \in CloudImages =>
         \A i \in Chan :
           ( /\ relayState'[i] => relayOffAt'[i] # Z32
             /\ ( /\ relayState[i] /\ ~relayState'[i]
                  /\ CloudLoop(NoCard) )
                => GeNum(sincePulse(i), PULSE_MS) ) )]_vars

\* C35: whatever millis() was when Enroll or Unenroll was entered, a loop
\* iteration that reads no card sets the mode to Normal only when TIMEOUT ms
\* or more have passed since the mode was entered.
C35_TimeoutForEveryClockValue ==
  [][( /\ ( /\ fw \in EepromImages
            /\ rfidAddMode \/ rfidRemoveMode
            /\ ~rfidAddMode' /\ ~rfidRemoveMode'
            /\ EeLoop(NoCard) )
          => GeNum(eeModeElapsed, RFID_MODE_TIMEOUT_MS)
       /\ ( /\ fw \in CloudImages
            /\ addMode \/ removeMode
            /\ ~addMode' /\ ~removeMode'
            /\ CloudLoop(NoCard) )
          => GeNum(Sub32(now, modeStartMs), MODE_TIMEOUT_MS) )]_vars

\* C36: a loop iteration that processes a card in Enroll or Unenroll mode
\* leaves every channel as the same iteration leaves it without a card (the
\* sweep and the access relay's auto-off run in every iteration): the scan
\* switches no channel and sets no deadline, whether or not the card is
\* enrolled and whatever its mask.
C36_ModeScanKeepsChannels ==
  [][/\ (fw \in CloudImages /\ scans' = scans + 1 /\ CloudScanMode \in {"add", "remove"})
          => \A card \in CloudCards :
               CloudLoop(card)
               => LET rl == loopHead(fw, Cloud, now).rl
                  IN relayState' = rl.state /\ relayOffAt' = rl.offAt
     /\ (fw \in EepromImages /\ scans' = scans + 1 /\ EeScanMode \in {"add", "remove"})
          => \A card \in EeCards :
               EeLoop(card)
               => /\ relay9_state' = loopTail(fw, Ee, now').relay9_state
                  /\ relay9_on_at' = relay9_on_at
                  /\ toggleState' = toggleState]_vars

\* A cloud image whose only scan so far removed, in Unenroll mode, a card
\* that was enrolled for R1 and R2: every channel is off and has no deadline.
C36_Witness ==
  /\ fw = "cloud"
  /\ scans = 1
  /\ buzz = "remove"
  /\ lastAccess.uid = FillerStr(3) /\ FillerMask(3) = 3
  /\ findCardIndex(cards, FillerStr(3)) < 0
  /\ \A i \in Chan : ~relayState[i] /\ relayOffAt[i] = Z32

\* C37: a restart, at whatever moment, leaves the mode Normal and the
\* channels that a granted scan drives off: the access relay of an EEPROM
\* image, every channel of a cloud image.
C37_StartupIsNormalAndOff ==
  [][/\ (fw \in EepromImages /\ EeRestart)
          => ~rfidAddMode' /\ ~rfidRemoveMode' /\ ~relay9_state'
     /\ (fw \in CloudImages /\ CloudRestart)
          => /\ ~addMode' /\ ~removeMode'
             /\ \A i \in Chan : ~relayState'[i] /\ relayOffAt'[i] = Z32]_vars

\* C38: a request for Enroll or Unenroll that the callback delivers while the
\* loop is inside the card branch of an Enroll or Unenroll scan is in force
\* when the iteration ends: exactly the requested mode is active, and on a
\* cloud image its timeout runs from the time of the request.
C38_MidScanRequestNotLost ==
  [][/\ (fw \in CloudImages /\ scans' = scans + 1)
          => \A card \in {FillerStr(0), uidToString(UID4)}, pname \in {P_ADD_MODE, P_REMOVE_MODE} :
               CloudRace(card, pname)
               => /\ addMode' <=> pname = P_ADD_MODE
                  /\ removeMode' <=> pname = P_REMOVE_MODE
                  /\ modeStartMs' = now'
     /\ (fw = "v102" /\ scans' = scans + 1)
          => \A card \in {FillerStr(0), uidToString(UID7)}, v \in 1..2 :
               EeRace(card, v)
               => /\ rfidAddMode' <=> v = 1
                  /\ rfidRemoveMode' <=> v = 2]_vars

\* C10: at most one of the Enroll and Unenroll flags is set.
C10_ModesExclusive ==
  /\ fw \in CloudImages => ~(addMode /\ removeMode)
  /\ fw \in EepromImages => ~(rfidAddMode /\ rfidRemoveMode)

\* An image in Unenroll mode with marks staged, which are staged for an
\* enrolment: the Unenroll request came while Enroll was being prepared, and
\* only the Unenroll flag is set.
C10_Witness ==
  /\ fw \in CloudImages
  /\ removeMode /\ ~addMode
  /\ statusStr = "REMOVE_MODE"
  /\ mark[0]

====
